---- MODULE Spec2Model ----
(***************************************************************************)
(* Pizza shop: the session cart (services/cart_manager.py), the order      *)
(* store (services/order_processor.py, database.py), the catalog reader    *)
(* (services/menu_service.py) and the request handlers (routes/*.py).      *)
(*                                                                         *)
(* Python values are tagged records so that every comparison is typed:     *)
(*   a number      [t |-> "num", n |-> 299]   (prices are whole INR, the   *)
(*                                             floats 299.0 .. are exact)  *)
(*   a str         [t |-> "str", n |-> 0]     (a non-numeric string)       *)
(*   a missing key [t |-> "absent", n |-> 0]                               *)
(* Text that the code converts (cart keys, form fields) is a tuple of      *)
(* one-character strings; a dict is a tuple of [k, v] pairs in insertion   *)
(* order, as Python dicts are.                                             *)
(***************************************************************************)
EXTENDS Integers, Sequences, FiniteSets, TLC

VARIABLES session, db, clock, ret, pre, created, txn

vars == <<session, db, clock, ret, pre, created, txn>>

-----------------------------------------------------------------------------
(* Bounds *)

MaxStoredLen == 1   \* entries of a cart found in the session at the start
MaxItems == 2       \* entries of a cart_items argument of create_order
MaxQty == 2         \* a quantity is not incremented beyond this
MaxOrders == 2      \* order rows in the store, direct create_order calls
MaxCheckouts == 1   \* order rows in the store, checkout requests
MaxClock == 1       \* ticks of the store's CURRENT_TIMESTAMP
MaxCalls == 3       \* create_order calls of the concurrent callers

-----------------------------------------------------------------------------
(* Python values *)

Num(n) == [t |-> "num", n |-> n]
BadStr == [t |-> "str", n |-> 0]
AbsentV == [t |-> "absent", n |-> 0]
AbsentName == "<absent>"

IsNum(v) == v.t = "num"

\* a value of a cart key that is not a dict ('corrupted_data', a list, ...)
NotDict == [dict |-> FALSE, name |-> AbsentName, price |-> AbsentV, quantity |-> AbsentV]

\* the dict {'name': name, 'price': price, 'quantity': quantity}
Item(name, price, quantity) ==
    [dict |-> TRUE, name |-> name, price |-> price, quantity |-> quantity]

\* str(pizza_id) for an int: the decimal digits, "-" first when negative
DigitChars == <<"0", "1", "2", "3", "4", "5", "6", "7", "8", "9">>

RECURSIVE StrOfNat(_)
StrOfNat(n) ==
    IF n < 10 THEN <<DigitChars[n + 1]>>
    ELSE StrOfNat(n \div 10) \o <<DigitChars[(n % 10) + 1]>>

StrOfInt(i) == IF i < 0 THEN <<"-">> \o StrOfNat(0 - i) ELSE StrOfNat(i)

\* int(s) for a str: [ok, n]; not ok is ValueError.  Digits with an optional
\* sign; any other character (a letter) is a ValueError.
DigitVal(c) == (CHOOSE d \in 1..10 : DigitChars[d] = c) - 1
IsDigit(c) == \E d \in 1..10 : DigitChars[d] = c

RECURSIVE NatOfDigits(_, _)
NatOfDigits(s, acc) ==
    IF s = <<>> THEN acc
    ELSE NatOfDigits(Tail(s), acc * 10 + DigitVal(Head(s)))

IntOfStr(s) ==
    LET body == IF s # <<>> /\ Head(s) \in {"-", "+"} THEN Tail(s) ELSE s
        okay == body # <<>> /\ \A i \in DOMAIN body : IsDigit(body[i])
        mag  == IF okay THEN NatOfDigits(body, 0) ELSE 0
    IN  [ok |-> okay,
         n  |-> IF s # <<>> /\ Head(s) = "-" THEN 0 - mag ELSE mag]

-----------------------------------------------------------------------------
(* Python dict, insertion ordered *)

EmptyDict == <<>>
DictKeys(d) == {d[i].k : i \in DOMAIN d}
DictHas(d, k) == \E i \in DOMAIN d : d[i].k = k
DictGet(d, k) == d[CHOOSE i \in DOMAIN d : d[i].k = k].v
DictSet(d, k, v) ==
    IF DictHas(d, k)
    THEN [i \in DOMAIN d |-> IF d[i].k = k THEN [k |-> k, v |-> v] ELSE d[i]]
    ELSE Append(d, [k |-> k, v |-> v])
DictDel(d, k) == SelectSeq(d, LAMBDA e : e.k # k)

-----------------------------------------------------------------------------
(* The Flask session, as far as the 'cart' key goes *)

\* 'cart' not in session
NoCart == [has |-> FALSE, mapping |-> FALSE, cart |-> EmptyDict]
\* session['cart'] is a list, a str, ...
NotMapping == [has |-> TRUE, mapping |-> FALSE, cart |-> EmptyDict]
\* session['cart'] = d
CartOf(d) == [has |-> TRUE, mapping |-> TRUE, cart |-> d]

-----------------------------------------------------------------------------
(* CartManager *)

\* add_item, lines 37-53, on the dict `cart`: [raised, cart]
AddItemOverwrites(cart, key, pizza_name, price) ==
    [raised |-> FALSE,
     cart |-> DictSet(cart, key, Item(pizza_name, price, Num(1)))]

AddItemKeepsQuantity(cart, key, pizza_name, price) ==
    IF DictHas(cart, key) /\ DictGet(cart, key).dict
         /\ DictGet(cart, key).quantity # AbsentV
    THEN [raised |-> FALSE, cart |-> cart]
    ELSE [raised |-> FALSE,
          cart |-> DictSet(cart, key, Item(pizza_name, price, Num(1)))]

add_item_dict(cart, key, pizza_name, price) ==
    IF DictHas(cart, key)
    THEN LET it == DictGet(cart, key) IN
         IF it.dict /\ it.quantity # AbsentV
         THEN IF IsNum(it.quantity)
              THEN [raised |-> FALSE,
                    cart |-> DictSet(cart, key,
                               [it EXCEPT !.quantity = Num(it.quantity.n + 1)])]
              ELSE [raised |-> TRUE, cart |-> cart]   \* str += 1: TypeError
         ELSE [raised |-> FALSE,
               cart |-> DictSet(cart, key, Item(pizza_name, price, Num(1)))]
    ELSE [raised |-> FALSE,
          cart |-> DictSet(cart, key, Item(pizza_name, price, Num(1)))]

\* add_item: [session, raised]
add_item(s, pizza_id, pizza_name, price) ==
    LET cart == IF s.has /\ s.mapping THEN s.cart ELSE EmptyDict
        r == add_item_dict(cart, StrOfInt(pizza_id), pizza_name, price)
    IN  IF r.raised
        THEN [session |-> CartOf(EmptyDict), raised |-> TRUE]
        ELSE [session |-> CartOf(r.cart), raised |-> FALSE]

\* get_cart, line 87
ItemIsValid(it) ==
    it.dict /\ it.name # AbsentName /\ it.price # AbsentV /\ it.quantity # AbsentV

\* get_cart: [session, cart]
GetCartNoPersist(s) ==
    IF ~s.has THEN [session |-> CartOf(EmptyDict), cart |-> EmptyDict]
    ELSE IF ~s.mapping THEN [session |-> CartOf(EmptyDict), cart |-> EmptyDict]
    ELSE [session |-> s, cart |-> SelectSeq(s.cart, LAMBDA e : ItemIsValid(e.v))]

get_cart(s) ==
    IF ~s.has THEN [session |-> CartOf(EmptyDict), cart |-> EmptyDict]
    ELSE IF ~s.mapping THEN [session |-> CartOf(EmptyDict), cart |-> EmptyDict]
    ELSE LET valid_cart == SelectSeq(s.cart, LAMBDA e : ItemIsValid(e.v)) IN
         [session |-> IF Len(valid_cart) # Len(s.cart) THEN CartOf(valid_cart) ELSE s,
          cart |-> valid_cart]

\* the loop of get_cart_total, lines 114-117: [raised, total]
RECURSIVE SumItemsIgnoresQuantity(_, _)
SumItemsIgnoresQuantity(cart, total) ==
    IF cart = <<>> THEN [raised |-> FALSE, total |-> total]
    ELSE LET item == Head(cart).v IN
         IF item.dict /\ item.price # AbsentV /\ item.quantity # AbsentV
         THEN IF IsNum(item.price) /\ IsNum(item.quantity)
              THEN SumItemsIgnoresQuantity(Tail(cart), total + item.price.n)
              ELSE [raised |-> TRUE, total |-> total]
         ELSE SumItemsIgnoresQuantity(Tail(cart), total)

RECURSIVE SumItems(_, _)
SumItems(cart, total) ==
    IF cart = <<>> THEN [raised |-> FALSE, total |-> total]
    ELSE LET item == Head(cart).v IN
         IF item.dict /\ item.price # AbsentV /\ item.quantity # AbsentV
         THEN IF IsNum(item.price) /\ IsNum(item.quantity)
              THEN SumItems(Tail(cart), total + item.price.n * item.quantity.n)
              ELSE [raised |-> TRUE, total |-> total]   \* float + str: TypeError
         ELSE SumItems(Tail(cart), total)

\* get_cart_total: [session, total]
get_cart_total(s) ==
    LET g == get_cart(s)
        r == SumItems(g.cart, 0)
    IN  [session |-> g.session, total |-> IF r.raised THEN 0 ELSE r.total]

\* is_empty: [session, empty]
IsEmptyCountsStored(s) ==
    [session |-> get_cart(s).session,
     empty |-> ~(s.has /\ s.mapping /\ Len(s.cart) > 0)]

is_empty(s) ==
    LET g == get_cart(s) IN [session |-> g.session, empty |-> Len(g.cart) = 0]

\* where the session fails under remove_item: nowhere, at its first read
\* ('cart' not in session), or at a write (session['cart'] = ..)
SessionFaults == {"none", "read", "write"}

\* remove_item: [session, raised]; the except branch logs and returns. `del`
\* works on the dict the session holds, so a write that fails after it leaves
\* the stored cart without the entry
RemoveItemClears(s, pizza_id, fault) ==
    [session |-> CartOf(EmptyDict), raised |-> FALSE]

RemoveItemResetsOnFault(s, pizza_id, fault) ==
    IF fault # "none" THEN [session |-> CartOf(EmptyDict), raised |-> FALSE]
    ELSE IF ~s.has THEN [session |-> CartOf(EmptyDict), raised |-> FALSE]
    ELSE IF ~s.mapping THEN [session |-> CartOf(EmptyDict), raised |-> FALSE]
    ELSE IF DictHas(s.cart, StrOfInt(pizza_id))
         THEN [session |-> CartOf(DictDel(s.cart, StrOfInt(pizza_id))), raised |-> FALSE]
         ELSE [session |-> s, raised |-> FALSE]

RemoveItemNoTypeCheck(s, pizza_id, fault) ==
    IF fault = "read" THEN [session |-> s, raised |-> FALSE]
    ELSE IF ~s.has
         THEN [session |-> IF fault = "write" THEN s ELSE CartOf(EmptyDict),
               raised |-> FALSE]
    ELSE IF s.mapping /\ DictHas(s.cart, StrOfInt(pizza_id))
         THEN [session |-> CartOf(DictDel(s.cart, StrOfInt(pizza_id))), raised |-> FALSE]
         ELSE [session |-> s, raised |-> FALSE]

remove_item(s, pizza_id, fault) ==
    IF fault = "read" THEN [session |-> s, raised |-> FALSE]
    ELSE IF ~s.has
         THEN [session |-> IF fault = "write" THEN s ELSE CartOf(EmptyDict),
               raised |-> FALSE]
    ELSE IF ~s.mapping
         THEN [session |-> IF fault = "write" THEN s ELSE CartOf(EmptyDict),
               raised |-> FALSE]
    ELSE IF DictHas(s.cart, StrOfInt(pizza_id))
         THEN [session |-> CartOf(DictDel(s.cart, StrOfInt(pizza_id))), raised |-> FALSE]
         ELSE [session |-> s, raised |-> FALSE]

\* clear_cart
ClearCartKeeps(s) == s

clear_cart(s) == CartOf(EmptyDict)

-----------------------------------------------------------------------------
(* The store: database.py *)

EmptyDb ==
    [pizzas |-> <<>>, orders |-> <<>>, order_items |-> <<>>,
     seq_pizzas |-> 0, seq_orders |-> 0, seq_items |-> 0]

sample_pizzas ==
    << <<"Margherita", 299>>, <<"Pepperoni", 399>>, <<"Vegetarian", 349>>,
       <<"BBQ Chicken", 449>>, <<"Hawaiian", 379>>, <<"Four Cheese", 429>> >>

\* INSERT INTO pizzas (name, price): AUTOINCREMENT id
RECURSIVE InsertPizzas(_, _)
InsertPizzas(d, rows) ==
    IF rows = <<>> THEN d
    ELSE InsertPizzas(
           [d EXCEPT !.pizzas = Append(@, [id |-> d.seq_pizzas + 1,
                                           name |-> Head(rows)[1],
                                           price |-> Head(rows)[2]]),
                     !.seq_pizzas = d.seq_pizzas + 1],
           Tail(rows))

\* init_db: CREATE TABLE IF NOT EXISTS .., seed the catalog when it is empty
InitDbRecreates(d) == InsertPizzas(EmptyDb, sample_pizzas)

InitDbAlwaysSeeds(d) == InsertPizzas(d, sample_pizzas)

init_db(d) == IF Len(d.pizzas) = 0 THEN InsertPizzas(d, sample_pizzas) ELSE d

-----------------------------------------------------------------------------
(* MenuService *)

NonePizza == [found |-> FALSE, id |-> 0, name |-> AbsentName, price |-> 0]

\* get_pizza_by_id: the row, or None when there is none or the store faults
get_pizza_by_id(d, pizza_id, fault) ==
    IF fault THEN NonePizza
    ELSE IF \E i \in DOMAIN d.pizzas : d.pizzas[i].id = pizza_id
         THEN LET row == d.pizzas[CHOOSE i \in DOMAIN d.pizzas : d.pizzas[i].id = pizza_id]
              IN  [found |-> TRUE, id |-> row.id, name |-> row.name, price |-> row.price]
         ELSE NonePizza

\* get_all_pizzas: the rows, [] when the store faults
get_all_pizzas(d, fault) ==
    IF fault THEN <<>>
    ELSE [i \in DOMAIN d.pizzas |-> [id |-> d.pizzas[i].id,
                                     name |-> d.pizzas[i].name,
                                     price |-> d.pizzas[i].price]]

-----------------------------------------------------------------------------
(* OrderProcessor *)

\* where a store fault hits create_order
NoFault == [at |-> "none", i |-> 0]
FaultAt(step) == [at |-> step, i |-> 0]
FaultAtItem(i) == [at |-> "insert_item", i |-> i]

\* INSERT INTO orders (..): the row gets the next AUTOINCREMENT id and
\* CURRENT_TIMESTAMP; cursor.lastrowid is then seq_orders
InsertOrderReusesId(tx, customer_name, phone, address, total, now) ==
    [tx EXCEPT !.orders = Append(@, [id |-> IF tx.seq_orders = 0 THEN 1 ELSE tx.seq_orders,
                                     customer_name |-> customer_name,
                                     phone |-> phone,
                                     address |-> address,
                                     total_price |-> total,
                                     order_date |-> now]),
               !.seq_orders = IF tx.seq_orders = 0 THEN 1 ELSE tx.seq_orders]

InsertOrderSwapsFields(tx, customer_name, phone, address, total, now) ==
    [tx EXCEPT !.orders = Append(@, [id |-> tx.seq_orders + 1,
                                     customer_name |-> customer_name,
                                     phone |-> address,
                                     address |-> phone,
                                     total_price |-> total,
                                     order_date |-> now]),
               !.seq_orders = tx.seq_orders + 1]

InsertOrder(tx, customer_name, phone, address, total, now) ==
    [tx EXCEPT !.orders = Append(@, [id |-> tx.seq_orders + 1,
                                     customer_name |-> customer_name,
                                     phone |-> phone,
                                     address |-> address,
                                     total_price |-> total,
                                     order_date |-> now]),
               !.seq_orders = tx.seq_orders + 1]

\* INSERT INTO order_items (..)
InsertOrderItem(tx, order_id, pizza_id, item) ==
    [tx EXCEPT !.order_items = Append(@, [id |-> tx.seq_items + 1,
                                          order_id |-> order_id,
                                          pizza_id |-> pizza_id,
                                          pizza_name |-> item.name,
                                          price |-> item.price,
                                          quantity |-> item.quantity]),
               !.seq_items = tx.seq_items + 1]

\* the loop over cart_items.items(), from entry i on: [raised, tx]
RECURSIVE InsertItems(_, _, _, _, _)
InsertItems(tx, order_id, cart_items, i, fault) ==
    IF i > Len(cart_items) THEN [raised |-> FALSE, tx |-> tx]
    ELSE LET pizza_id == IntOfStr(cart_items[i].k)
             item == cart_items[i].v
         IN  IF ~pizza_id.ok THEN [raised |-> TRUE, tx |-> tx]        \* ValueError
             ELSE IF ~item.dict THEN [raised |-> TRUE, tx |-> tx]     \* TypeError
             ELSE IF item.name = AbsentName \/ item.price = AbsentV
                     \/ item.quantity = AbsentV
                  THEN [raised |-> TRUE, tx |-> tx]                   \* KeyError
             ELSE IF fault = FaultAtItem(i) THEN [raised |-> TRUE, tx |-> tx]
             ELSE InsertItems(InsertOrderItem(tx, order_id, pizza_id.n, item),
                              order_id, cart_items, i + 1, fault)

\* conn.rollback(): the store is as it was when the transaction began
RollbackKeeps(tx, snapshot) == tx

Rollback(tx, snapshot) == snapshot

\* create_order: [db, raised, order_id, open]; order_id is 0 when the call
\* raised; open counts the connections the call leaves open. With the fault
\* "rollback" the store fails from the first INSERT on: conn.rollback() in the
\* except branch raises as well, conn.close() after it is not reached, and
\* the transaction is undone when the connection is discarded
create_order(d, customer_name, phone, address, cart_items, total, fault, now) ==
    IF fault.at = "connect"
    THEN [db |-> d, raised |-> TRUE, order_id |-> 0, open |-> 0]
    ELSE IF fault.at = "rollback"
    THEN [db |-> d, raised |-> TRUE, order_id |-> 0, open |-> 1]
    ELSE IF fault.at = "insert_order"
    THEN [db |-> Rollback(d, d), raised |-> TRUE, order_id |-> 0, open |-> 0]
    ELSE LET t1 == InsertOrder(d, customer_name, phone, address, total, now)
             order_id == t1.seq_orders
             r == InsertItems(t1, order_id, cart_items, 1, fault)
         IN  IF r.raised \/ fault.at = "commit"
             THEN [db |-> Rollback(r.tx, d), raised |-> TRUE, order_id |-> 0,
                   open |-> 0]
             ELSE [db |-> r.tx, raised |-> FALSE, order_id |-> order_id,
                   open |-> 0]

NoneOrder ==
    [found |-> FALSE, id |-> 0, customer_name |-> <<>>, phone |-> <<>>,
     address |-> <<>>, total_price |-> 0, order_date |-> 0, items |-> <<>>]

\* the list comprehension of get_order_by_id, lines 107-115
ItemsOfRows(rows) ==
    [i \in DOMAIN rows |-> [pizza_id |-> rows[i].pizza_id,
                            pizza_name |-> rows[i].pizza_name,
                            price |-> rows[i].price,
                            quantity |-> rows[i].quantity]]

\* get_order_by_id: the order with its items, None when there is none or the
\* store faults
GetOrderByIdFirstRow(d, order_id, fault) ==
    IF fault THEN NoneOrder
    ELSE IF d.orders = <<>> THEN NoneOrder
    ELSE LET order_row == d.orders[1]
             items_rows == SelectSeq(d.order_items, LAMBDA r : r.order_id = order_row.id)
         IN  [found |-> TRUE,
              id |-> order_row.id,
              customer_name |-> order_row.customer_name,
              phone |-> order_row.phone,
              address |-> order_row.address,
              total_price |-> order_row.total_price,
              order_date |-> order_row.order_date,
              items |-> ItemsOfRows(items_rows)]

get_order_by_id(d, order_id, fault) ==
    IF fault THEN NoneOrder
    ELSE IF ~\E i \in DOMAIN d.orders : d.orders[i].id = order_id THEN NoneOrder
    ELSE LET order_row == d.orders[CHOOSE i \in DOMAIN d.orders : d.orders[i].id = order_id]
             items_rows == SelectSeq(d.order_items, LAMBDA r : r.order_id = order_id)
         IN  [found |-> TRUE,
              id |-> order_row.id,
              customer_name |-> order_row.customer_name,
              phone |-> order_row.phone,
              address |-> order_row.address,
              total_price |-> order_row.total_price,
              order_date |-> order_row.order_date,
              items |-> ItemsOfRows(items_rows)]

\* SELECT .. FROM orders ORDER BY order_date DESC: the orders in an order
\* that is descending in order_date; SQL leaves the order of rows of equal
\* order_date open, SQLite 3.40 returns them in rowid order
OrdersByDateDesc(d) ==
    { [i \in DOMAIN d.orders |-> d.orders[f[i]]] :
        f \in { g \in [DOMAIN d.orders -> DOMAIN d.orders] :
                  /\ \A i, j \in DOMAIN d.orders : i # j => g[i] # g[j]
                  /\ \A i, j \in DOMAIN d.orders :
                       i < j => d.orders[g[i]].order_date >= d.orders[g[j]].order_date } }

\* the limit argument: None (the default) or an integer
LimitNone == [given |-> FALSE, n |-> 0]
Limit(n) == [given |-> TRUE, n |-> n]

\* LIMIT {limit} OFFSET {offset}, appended `if limit:`, which None and 0 fail
Page(rows, limit, offset) ==
    IF ~limit.given \/ limit.n = 0 THEN rows
    ELSE SubSeq(rows, offset + 1,
                IF offset + limit.n < Len(rows) THEN offset + limit.n ELSE Len(rows))

\* get_all_orders: the lists the call can return; [] when the store faults
get_all_orders(d, limit, offset, fault) ==
    IF fault THEN {<<>>}
    ELSE { Page(rows, limit, offset) : rows \in OrdersByDateDesc(d) }

\* get_order_count: COUNT(*) of orders, 0 when the store faults
GetOrderCountMinusOne(d, fault) == IF fault THEN 0 - 1 ELSE Len(d.orders)

get_order_count(d, fault) == IF fault THEN 0 ELSE Len(d.orders)

-----------------------------------------------------------------------------
(* Request handlers: routes/cart_routes.py, routes/order_routes.py *)

\* a field of request.form: absent from the form, or its text
FieldMissing == [present |-> FALSE, text |-> <<>>]
Field(text) == [present |-> TRUE, text |-> text]

\* request.form.get(name, '')
FormGet(field) == IF field.present THEN field.text ELSE <<>>

\* str.strip()
Whitespace == {" ", "\t", "\n"}

RECURSIVE LStrip(_)
LStrip(text) ==
    IF text # <<>> /\ Head(text) \in Whitespace THEN LStrip(Tail(text)) ELSE text

RECURSIVE RStrip(_)
RStrip(text) ==
    IF text # <<>> /\ text[Len(text)] \in Whitespace
    THEN RStrip(SubSeq(text, 1, Len(text) - 1))
    ELSE text

Strip(text) == RStrip(LStrip(text))

\* checkout, line 23: not (not customer_name or not phone or not address)
FormValidNoStrip(form) ==
    FormGet(form.name) # <<>> /\ FormGet(form.phone) # <<>> /\ FormGet(form.address) # <<>>

FormValid(form) ==
    /\ Strip(FormGet(form.name)) # <<>>
    /\ Strip(FormGet(form.phone)) # <<>>
    /\ Strip(FormGet(form.address)) # <<>>

\* checkout, lines 50-56: the except branch re-reads the cart for the page
CheckoutErrorClears(s) == CartOf(EmptyDict)

checkout_on_error(s) == get_cart_total(get_cart(s).session).session

\* checkout, lines 44-48, after create_order returned
CheckoutSuccessKeeps(s) == s

checkout_on_success(s) == clear_cart(s)

\* checkout, POST: [session, db, status, location, order_id]
checkout_post(s, d, form, fault, now) ==
    IF ~FormValid(form)
    THEN [session |-> get_cart_total(get_cart(s).session).session, db |-> d,
          status |-> 400, location |-> "", order_id |-> 0]
    ELSE LET g == get_cart(s)
             t == get_cart_total(g.session)
         IN  IF Len(g.cart) = 0
             THEN [session |-> t.session, db |-> d,
                   status |-> 302, location |-> "cart", order_id |-> 0]
             ELSE LET c == create_order(d, Strip(FormGet(form.name)),
                                        Strip(FormGet(form.phone)),
                                        Strip(FormGet(form.address)),
                                        g.cart, t.total, fault, now)
                  IN  IF c.raised
                      THEN [session |-> checkout_on_error(t.session), db |-> c.db,
                            status |-> 500, location |-> "", order_id |-> 0]
                      ELSE [session |-> checkout_on_success(t.session), db |-> c.db,
                            status |-> 302, location |-> "confirmation",
                            order_id |-> c.order_id]

\* checkout, GET: [session, status, location]
checkout_get(s) ==
    LET e == is_empty(s) IN
    IF e.empty
    THEN [session |-> e.session, status |-> 302, location |-> "cart"]
    ELSE [session |-> get_cart_total(get_cart(e.session).session).session,
          status |-> 200, location |-> ""]

\* confirmation: the status
ConfirmationSurfacesFault(d, order_id, fault) ==
    IF fault THEN 500
    ELSE IF get_order_by_id(d, order_id, fault).found THEN 200 ELSE 404

confirmation(d, order_id, fault) ==
    IF get_order_by_id(d, order_id, fault).found THEN 200 ELSE 404

\* add_to_cart: [session, status]
AddToCartUnchecked(s, d, pizza_id, fault) ==
    LET pizza == get_pizza_by_id(d, pizza_id, fault)
        r == add_item(s, pizza_id, pizza.name, Num(pizza.price))
    IN  [session |-> r.session,
         status |-> IF ~pizza.found THEN 404 ELSE IF r.raised THEN 500 ELSE 200]

add_to_cart(s, d, pizza_id, fault) ==
    LET pizza == get_pizza_by_id(d, pizza_id, fault) IN
    IF ~pizza.found THEN [session |-> s, status |-> 404]
    ELSE LET r == add_item(s, pizza.id, pizza.name, Num(pizza.price)) IN
         [session |-> r.session, status |-> IF r.raised THEN 500 ELSE 200]

\* remove_from_cart: [session, status, location]
remove_from_cart(s, d, pizza_id, fault) ==
    [session |-> remove_item(s, pizza_id, "none").session,
     status |-> 302, location |-> "cart"]

\* cart: [session, status]
CartPagePopsCart(s) == [session |-> NoCart, status |-> 200]

cart_page(s) ==
    [session |-> get_cart_total(get_cart(s).session).session, status |-> 200]

\* index: [session, status, pizzas]
index(s, d, fault) ==
    [session |-> s, status |-> 200, pizzas |-> get_all_pizzas(d, fault)]

-----------------------------------------------------------------------------
(* Inputs *)

\* dicts of at most n entries with keys in K and values in V
DictsOver(K, V, n) ==
    UNION { { d \in [1..m -> [k : K, v : V]] :
                \A i, j \in 1..m : i # j => d[i].k # d[j].k } : m \in 0..n }

\* what a session may hold under 'cart' when a request arrives: nothing, a
\* value that is no dict, or a dict whose values are well-formed, partial,
\* ill-typed or no dicts at all
StoredKeys == {<<"1">>, <<"2">>, <<"x">>}
StoredItems ==
    { NotDict,
      Item("Margherita", Num(299), Num(1)),
      Item("Margherita", Num(299), BadStr),
      Item("Margherita", BadStr, Num(1)),
      Item("Margherita", Num(299), AbsentV),
      Item(AbsentName, Num(299), Num(1)),
      Item(AbsentName, AbsentV, Num(1)) }
StoredSessions ==
    {NoCart, NotMapping} \cup
    { CartOf(d) : d \in DictsOver(StoredKeys, StoredItems, MaxStoredLen) }

\* arguments of add_item and remove_item
ItemIds == {1, 2}
ItemArgs ==
    { [pizza_name |-> "Margherita", price |-> Num(299)],
      [pizza_name |-> "Pepperoni", price |-> Num(399)] }

\* arguments of create_order
\* arguments of create_order: a cart_items dict takes its keys, in any order,
\* among "1", "2" (well-formed items) and "x" (a well-formed item under a key
\* that is no integer)
OrderKeys == {<<"1">>, <<"2">>, <<"x">>}
OrderItemAt(k) ==
    CASE k = <<"1">> -> Item("Margherita", Num(299), Num(2))
      [] k = <<"2">> -> Item("Pepperoni", Num(399), Num(1))
      [] OTHER -> Item("Margherita", Num(299), Num(1))
OrderCarts ==
    UNION { { [i \in 1..m |-> [k |-> ks[i], v |-> OrderItemAt(ks[i])]] :
                ks \in { q \in [1..m -> OrderKeys] :
                           \A i, j \in 1..m : i # j => q[i] # q[j] } } :
            m \in 0..MaxItems }
OrderInputs ==
    { [customer_name |-> <<"J">>, phone |-> <<"5">>, address |-> <<"A">>, total |-> 997] }

FaultsFor(cart_items) ==
    {NoFault, FaultAt("connect"), FaultAt("insert_order"), FaultAt("commit")}
    \cup { FaultAtItem(i) : i \in 1..Len(cart_items) }

\* request arguments
RequestIds == {1, 7}
OrderIds == 1..(MaxCheckouts + 1)
ValidForm ==
    [name |-> Field(<<" ", "J", "\t">>), phone |-> Field(<<"5">>),
     address |-> Field(<<"A", " ">>)]
Forms ==
    { ValidForm,
      [ValidForm EXCEPT !.name = Field(<<" ">>)],
      [ValidForm EXCEPT !.phone = FieldMissing],
      [ValidForm EXCEPT !.address = Field(<<"\n", "\t">>)],
      [ValidForm EXCEPT !.address = Field(<<>>)] }

\* the 'cart' a request may find in its session: none, a value that is no
\* dict, a dict with a value that is no dict, a well-formed item under a key
\* that is no integer, a well-formed item
RequestSessions ==
    { NoCart, NotMapping,
      CartOf(<<[k |-> <<"2">>, v |-> NotDict]>>),
      CartOf(<<[k |-> <<"x">>, v |-> Item("Margherita", Num(299), Num(1))]>>),
      CartOf(<<[k |-> <<"2">>, v |-> Item("Pepperoni", Num(399), Num(1))]>>) }

-----------------------------------------------------------------------------
(* State *)

\* ret: the last call or request and what it answered; pre: the session and
\* the store as that call found them; created: what the create_order calls
\* returned, in order, with one 0 for a run of calls that raised
NoArgs ==
    [customer_name |-> <<>>, phone |-> <<>>, address |-> <<>>,
     cart_items |-> <<>>, total |-> 0]
NoForm == [name |-> FieldMissing, phone |-> FieldMissing, address |-> FieldMissing]
NoRet ==
    [op |-> "init", pizza_id |-> 0, pizza_name |-> AbsentName, price |-> AbsentV,
     raised |-> FALSE, cart |-> <<>>, total |-> 0, empty |-> FALSE,
     order_id |-> 0, order |-> NoneOrder, pizza |-> NonePizza,
     rows |-> <<>>, count |-> 0, limit |-> LimitNone, offset |-> 0,
     args |-> NoArgs, form |-> NoForm,
     fault |-> NoFault, store_fault |-> FALSE, session_fault |-> "none",
     open |-> 0, status |-> 0, location |-> ""]

\* the concurrent callers of create_order, each on a connection of its own
Procs == {1, 2}

\* txn: where each caller is in create_order (pc), the number of its call,
\* its cursor.lastrowid (oid) and the next entry of its cart_items; the
\* connection that holds SQLite's write lock; the store as the open
\* transaction sees it (work), the committed store being db; tags: the call
\* that inserted each committed row, work_tags the same for work
NoTxn ==
    [pc |-> [p \in Procs |-> "idle"], call |-> [p \in Procs |-> 0],
     oid |-> [p \in Procs |-> 0], next |-> [p \in Procs |-> 0],
     calls |-> 0, lock |-> 0, work |-> init_db(EmptyDb),
     tags |-> <<>>, work_tags |-> <<>>]

InitStore ==
    /\ db = init_db(EmptyDb)
    /\ clock = 0
    /\ ret = NoRet
    /\ created = <<>>
    /\ txn = NoTxn

\* a session as a CartManager call may find it
InitCart ==
    /\ session \in StoredSessions
    /\ InitStore
    /\ pre = [session |-> session, db |-> db]

\* a session as a request may find it
Init ==
    /\ session \in RequestSessions
    /\ InitStore
    /\ pre = [session |-> session, db |-> db]

\* a new session
InitOrder ==
    /\ session = NoCart
    /\ InitStore
    /\ pre = [session |-> session, db |-> db]

Observe == pre' = [session |-> session, db |-> db]

Returned(log, raised, order_id) ==
    IF ~raised THEN Append(log, order_id)
    ELSE IF log # <<>> /\ log[Len(log)] = 0 THEN log
    ELSE Append(log, 0)

-----------------------------------------------------------------------------
(* CartManager calls *)

\* the quantity add_item would increment is below the bound
BelowMaxQty(s, pizza_id) ==
    s.has /\ s.mapping /\ DictHas(s.cart, StrOfInt(pizza_id))
      /\ IsNum(DictGet(s.cart, StrOfInt(pizza_id)).quantity)
    => DictGet(s.cart, StrOfInt(pizza_id)).quantity.n < MaxQty

AddItem ==
    \E pizza_id \in ItemIds, a \in ItemArgs :
        /\ BelowMaxQty(session, pizza_id)
        /\ LET r == add_item(session, pizza_id, a.pizza_name, a.price) IN
           /\ session' = r.session
           /\ ret' = [NoRet EXCEPT !.op = "add_item", !.pizza_id = pizza_id,
                                   !.pizza_name = a.pizza_name, !.price = a.price,
                                   !.raised = r.raised]
        /\ Observe
        /\ UNCHANGED <<db, clock, created, txn>>

GetCart ==
    /\ LET r == get_cart(session) IN
       /\ session' = r.session
       /\ ret' = [NoRet EXCEPT !.op = "get_cart", !.cart = r.cart]
    /\ Observe
    /\ UNCHANGED <<db, clock, created, txn>>

GetCartTotal ==
    /\ LET r == get_cart_total(session) IN
       /\ session' = r.session
       /\ ret' = [NoRet EXCEPT !.op = "get_cart_total", !.total = r.total]
    /\ Observe
    /\ UNCHANGED <<db, clock, created, txn>>

IsEmpty ==
    /\ LET r == is_empty(session) IN
       /\ session' = r.session
       /\ ret' = [NoRet EXCEPT !.op = "is_empty", !.empty = r.empty]
    /\ Observe
    /\ UNCHANGED <<db, clock, created, txn>>

RemoveItem ==
    \E pizza_id \in ItemIds, fault \in SessionFaults :
        /\ LET r == remove_item(session, pizza_id, fault) IN
           /\ session' = r.session
           /\ ret' = [NoRet EXCEPT !.op = "remove_item", !.pizza_id = pizza_id,
                                   !.session_fault = fault,
                                   !.raised = r.raised]
        /\ Observe
        /\ UNCHANGED <<db, clock, created, txn>>

ClearCart ==
    /\ session' = clear_cart(session)
    /\ ret' = [NoRet EXCEPT !.op = "clear_cart"]
    /\ Observe
    /\ UNCHANGED <<db, clock, created, txn>>

NextCart == AddItem \/ GetCart \/ GetCartTotal \/ IsEmpty \/ RemoveItem \/ ClearCart

SpecCart == InitCart /\ [][NextCart]_vars

-----------------------------------------------------------------------------
(* OrderProcessor calls *)

CreateOrder ==
    \E c \in OrderInputs, cart_items \in OrderCarts :
      \E fault \in FaultsFor(cart_items) :
        /\ Len(db.orders) < MaxOrders
        /\ LET r == create_order(db, c.customer_name, c.phone, c.address,
                                 cart_items, c.total, fault, clock) IN
           /\ db' = r.db
           /\ ret' = [NoRet EXCEPT !.op = "create_order",
                                   !.args = [customer_name |-> c.customer_name,
                                             phone |-> c.phone,
                                             address |-> c.address,
                                             cart_items |-> cart_items,
                                             total |-> c.total],
                                   !.fault = fault, !.raised = r.raised,
                                   !.order_id = r.order_id]
           /\ created' = Returned(created, r.raised, r.order_id)
        /\ Observe
        /\ UNCHANGED <<session, clock, txn>>

GetOrderById ==
    \E order_id \in 1..(MaxOrders + 1), fault \in BOOLEAN :
        /\ ret' = [NoRet EXCEPT !.op = "get_order_by_id", !.order_id = order_id,
                                !.store_fault = fault,
                                !.order = get_order_by_id(db, order_id, fault)]
        /\ Observe
        /\ UNCHANGED <<session, db, clock, created, txn>>

NextOrder == CreateOrder \/ GetOrderById

SpecOrder == InitOrder /\ [][NextOrder]_vars

-----------------------------------------------------------------------------
(* The store over time: orders placed at the ticks of its clock, the reads,
   a restart of the application, a catalog row changed from outside *)

\* the cart_items of the orders placed
StoreCarts ==
    { <<[k |-> <<"2">>, v |-> OrderItemAt(<<"2">>)],
        [k |-> <<"1">>, v |-> OrderItemAt(<<"1">>)]>> }

\* what a changed catalog row holds
DriftedPizza == [name |-> "Margherita Classic", price |-> 319]

\* LIMIT and OFFSET of get_all_orders
Limits == {LimitNone, Limit(0), Limit(1)}
Offsets == {0, 1}

CreateOrderAt ==
    \E c \in OrderInputs, cart_items \in StoreCarts :
      \E fault \in {NoFault, FaultAtItem(Len(cart_items)), FaultAt("rollback")} :
        /\ Len(db.orders) < MaxOrders
        /\ LET r == create_order(db, c.customer_name, c.phone, c.address,
                                 cart_items, c.total, fault, clock) IN
           /\ db' = r.db
           /\ ret' = [NoRet EXCEPT !.op = "create_order", !.fault = fault,
                                   !.raised = r.raised, !.order_id = r.order_id,
                                   !.open = r.open]
           /\ created' = Returned(created, r.raised, r.order_id)
        /\ Observe
        /\ UNCHANGED <<session, clock, txn>>

\* CURRENT_TIMESTAMP moves to the next second
Tick ==
    /\ clock < MaxClock
    /\ clock' = clock + 1
    /\ UNCHANGED <<session, db, ret, pre, created, txn>>

\* the application starts again on the same database file
InitDb ==
    /\ db' = init_db(db)
    /\ ret' = [NoRet EXCEPT !.op = "init_db"]
    /\ Observe
    /\ UNCHANGED <<session, clock, created, txn>>

\* the name and the price of a catalog row are changed in the database file
CatalogDrift ==
    /\ db.pizzas[1].name # DriftedPizza.name
    /\ db' = [db EXCEPT !.pizzas[1].name = DriftedPizza.name,
                        !.pizzas[1].price = DriftedPizza.price]
    /\ ret' = [NoRet EXCEPT !.op = "catalog_drift"]
    /\ Observe
    /\ UNCHANGED <<session, clock, created, txn>>

GetAllPizzas ==
    \E fault \in BOOLEAN :
        /\ ret' = [NoRet EXCEPT !.op = "get_all_pizzas", !.store_fault = fault,
                                !.rows = get_all_pizzas(db, fault)]
        /\ Observe
        /\ UNCHANGED <<session, db, clock, created, txn>>

GetPizzaById ==
    \E pizza_id \in RequestIds, fault \in BOOLEAN :
        /\ ret' = [NoRet EXCEPT !.op = "get_pizza_by_id", !.pizza_id = pizza_id,
                                !.store_fault = fault,
                                !.pizza = get_pizza_by_id(db, pizza_id, fault)]
        /\ Observe
        /\ UNCHANGED <<session, db, clock, created, txn>>

GetAllOrders ==
    \E limit \in Limits, offset \in Offsets, fault \in BOOLEAN :
      \E rows \in get_all_orders(db, limit, offset, fault) :
        /\ ret' = [NoRet EXCEPT !.op = "get_all_orders", !.store_fault = fault,
                                !.limit = limit, !.offset = offset,
                                !.rows = rows]
        /\ Observe
        /\ UNCHANGED <<session, db, clock, created, txn>>

GetOrderCount ==
    \E fault \in BOOLEAN :
        /\ ret' = [NoRet EXCEPT !.op = "get_order_count", !.store_fault = fault,
                                !.count = get_order_count(db, fault)]
        /\ Observe
        /\ UNCHANGED <<session, db, clock, created, txn>>

NextStore ==
    \/ CreateOrderAt
    \/ Tick
    \/ InitDb
    \/ CatalogDrift
    \/ GetAllPizzas
    \/ GetPizzaById
    \/ GetOrderById
    \/ GetAllOrders
    \/ GetOrderCount

SpecStore == InitOrder /\ [][NextStore]_vars

-----------------------------------------------------------------------------
(* create_order calls that interleave their statements, each on its own
   connection (get_db_connection). sqlite3 opens the transaction at the first
   INSERT, which takes the write lock of the database file; a connection that
   finds the lock taken waits for it and raises "database is locked" when its
   timeout runs out *)

\* the cart_items every concurrent call passes
ConcCart ==
    <<[k |-> <<"2">>, v |-> OrderItemAt(<<"2">>)],
      [k |-> <<"1">>, v |-> OrderItemAt(<<"1">>)]>>

\* the connection of p may write: no other connection holds the write lock
CanWriteUnlocked(t, p) == TRUE

CanWrite(t, p) == t.lock \in {0, p}

\* p enters create_order: conn = get_db_connection(); cursor = conn.cursor()
Connect ==
    \E p \in Procs :
        /\ txn.pc[p] = "idle"
        /\ txn.calls < MaxCalls
        /\ txn' = [txn EXCEPT !.pc[p] = "connected",
                              !.calls = @ + 1,
                              !.call[p] = txn.calls + 1]
        /\ UNCHANGED <<session, db, clock, ret, pre, created>>

\* INSERT INTO orders; order_id = cursor.lastrowid
InsertOrderStmt ==
    \E p \in Procs, c \in OrderInputs :
        /\ txn.pc[p] = "connected"
        /\ CanWrite(txn, p)
        /\ LET w == InsertOrder(txn.work, c.customer_name, c.phone, c.address,
                                c.total, clock) IN
           txn' = [txn EXCEPT !.pc[p] = "items",
                              !.lock = IF @ = 0 THEN p ELSE @,
                              !.work = w,
                              !.work_tags = Append(@, [row |-> "order",
                                                       id |-> w.seq_orders,
                                                       call |-> txn.call[p]]),
                              !.oid[p] = w.seq_orders,
                              !.next[p] = 1]
        /\ UNCHANGED <<session, db, clock, ret, pre, created>>

\* the INSERT INTO orders of p finds the lock taken until its timeout: it
\* raises, the except branch rolls back a transaction that never began,
\* closes and raises
DatabaseLocked ==
    \E p \in Procs :
        /\ txn.pc[p] = "connected"
        /\ ~CanWrite(txn, p)
        /\ txn' = [txn EXCEPT !.pc[p] = "idle"]
        /\ UNCHANGED <<session, db, clock, ret, pre, created>>

\* INSERT INTO order_items for the next entry of cart_items
InsertItemStmt ==
    \E p \in Procs :
        /\ txn.pc[p] = "items"
        /\ txn.next[p] <= Len(ConcCart)
        /\ CanWrite(txn, p)
        /\ LET e == ConcCart[txn.next[p]]
               w == InsertOrderItem(txn.work, txn.oid[p], IntOfStr(e.k).n, e.v)
           IN  txn' = [txn EXCEPT !.lock = IF @ = 0 THEN p ELSE @,
                                  !.work = w,
                                  !.work_tags = Append(@, [row |-> "item",
                                                           id |-> w.seq_items,
                                                           call |-> txn.call[p]]),
                                  !.next[p] = @ + 1]
        /\ UNCHANGED <<session, db, clock, ret, pre, created>>

\* a statement of p raises after its INSERT INTO orders: conn.rollback(),
\* conn.close(), raise
StmtFails ==
    \E p \in Procs :
        /\ txn.pc[p] = "items"
        /\ txn' = [txn EXCEPT !.pc[p] = "idle",
                              !.lock = 0,
                              !.work = Rollback(@, db),
                              !.work_tags = txn.tags]
        /\ UNCHANGED <<session, db, clock, ret, pre, created>>

\* conn.commit(); conn.close(); return order_id
Commit ==
    \E p \in Procs :
        /\ txn.pc[p] = "items"
        /\ txn.next[p] > Len(ConcCart)
        /\ CanWrite(txn, p)
        /\ db' = txn.work
        /\ txn' = [txn EXCEPT !.pc[p] = "idle",
                              !.lock = 0,
                              !.tags = txn.work_tags]
        /\ UNCHANGED <<session, clock, ret, pre, created>>

NextConc ==
    \/ Connect
    \/ InsertOrderStmt
    \/ DatabaseLocked
    \/ InsertItemStmt
    \/ StmtFails
    \/ Commit

SpecConc == InitOrder /\ [][NextConc]_vars

-----------------------------------------------------------------------------
(* Requests *)

AddToCart ==
    \E pizza_id \in RequestIds, fault \in BOOLEAN :
        /\ BelowMaxQty(session, pizza_id)
        /\ LET r == add_to_cart(session, db, pizza_id, fault) IN
           /\ session' = r.session
           /\ ret' = [NoRet EXCEPT !.op = "add_to_cart", !.pizza_id = pizza_id,
                                   !.store_fault = fault, !.status = r.status,
                                   !.pizza = get_pizza_by_id(db, pizza_id, fault)]
        /\ Observe
        /\ UNCHANGED <<db, clock, created, txn>>

RemoveFromCart ==
    \E pizza_id \in RequestIds, fault \in BOOLEAN :
        /\ LET r == remove_from_cart(session, db, pizza_id, fault) IN
           /\ session' = r.session
           /\ ret' = [NoRet EXCEPT !.op = "remove_from_cart", !.pizza_id = pizza_id,
                                   !.store_fault = fault, !.status = r.status,
                                   !.location = r.location]
        /\ Observe
        /\ UNCHANGED <<db, clock, created, txn>>

CartPage ==
    /\ LET r == cart_page(session) IN
       /\ session' = r.session
       /\ ret' = [NoRet EXCEPT !.op = "cart", !.status = r.status]
    /\ Observe
    /\ UNCHANGED <<db, clock, created, txn>>

CheckoutGet ==
    /\ LET r == checkout_get(session) IN
       /\ session' = r.session
       /\ ret' = [NoRet EXCEPT !.op = "checkout_get", !.status = r.status,
                               !.location = r.location]
    /\ Observe
    /\ UNCHANGED <<db, clock, created, txn>>

CheckoutPost ==
    \E form \in Forms :
      \E fault \in IF FormValid(form) THEN FaultsFor(get_cart(session).cart)
                    ELSE {NoFault} :
        /\ LET r == checkout_post(session, db, form, fault, clock) IN
           /\ Len(r.db.orders) <= MaxCheckouts
           /\ session' = r.session
           /\ db' = r.db
           /\ ret' = [NoRet EXCEPT !.op = "checkout_post", !.form = form,
                                   !.fault = fault, !.status = r.status,
                                   !.location = r.location,
                                   !.order_id = r.order_id]
           /\ created' = IF r.status = 500 \/ r.order_id # 0
                         THEN Returned(created, r.status = 500, r.order_id)
                         ELSE created
        /\ Observe
        /\ UNCHANGED <<clock, txn>>

Confirmation ==
    \E order_id \in OrderIds, fault \in BOOLEAN :
        /\ ret' = [NoRet EXCEPT !.op = "confirmation", !.order_id = order_id,
                                !.store_fault = fault,
                                !.order = get_order_by_id(db, order_id, fault),
                                !.status = confirmation(db, order_id, fault)]
        /\ Observe
        /\ UNCHANGED <<session, db, clock, created, txn>>

MenuPage ==
    \E fault \in BOOLEAN :
        /\ LET r == index(session, db, fault) IN
           /\ session' = r.session
           /\ ret' = [NoRet EXCEPT !.op = "index", !.store_fault = fault,
                                   !.status = r.status, !.rows = r.pizzas]
        /\ Observe
        /\ UNCHANGED <<db, clock, created, txn>>

Next ==
    \/ MenuPage
    \/ AddToCart
    \/ RemoveFromCart
    \/ CartPage
    \/ CheckoutGet
    \/ CheckoutPost
    \/ Confirmation

Spec == Init /\ [][Next]_vars

\* the requests of a session that starts with no cart
SpecFresh == InitOrder /\ [][Next]_vars

-----------------------------------------------------------------------------
(* Properties *)

\* the item has name, price and quantity
WellFormed(it) ==
    it.dict /\ it.name # AbsentName /\ it.price # AbsentV /\ it.quantity # AbsentV

\* the stored cart holds a well-formed entry under key
WellFormedAt(s, key) ==
    s.has /\ s.mapping /\ DictHas(s.cart, key) /\ WellFormed(DictGet(s.cart, key))

\* the well-formed entries of the stored cart, in order
ValidEntries(s) ==
    IF s.has /\ s.mapping THEN SelectSeq(s.cart, LAMBDA e : WellFormed(e.v)) ELSE <<>>

\* the entry is well-formed and its price and quantity are numbers, quantity >= 1
WellTyped(it) ==
    WellFormed(it) /\ IsNum(it.price) /\ IsNum(it.quantity) /\ it.quantity.n >= 1

RECURSIVE SumOfWellTyped(_)
SumOfWellTyped(cart) ==
    IF cart = <<>> THEN 0
    ELSE (IF WellTyped(Head(cart).v)
          THEN Head(cart).v.price.n * Head(cart).v.quantity.n ELSE 0)
         + SumOfWellTyped(Tail(cart))

RetKey == StrOfInt(ret.pizza_id)

\* C1: after add_item(itemId, name, price) on a cart with no well-formed entry
\* under str(itemId), get_cart() holds an entry under str(itemId) with
\* quantity 1, the given name and the given price
C1_AddCreatesEntry ==
    ret.op = "add_item" /\ ~WellFormedAt(pre.session, RetKey)
    => /\ ~ret.raised
       /\ DictHas(get_cart(session).cart, RetKey)
       /\ DictGet(get_cart(session).cart, RetKey)
            = Item(ret.pizza_name, ret.price, Num(1))

\* C2: add_item on a well-formed entry with quantity q, whatever name and
\* price are passed, leaves the entry with quantity q + 1 and its own name and
\* price, every other entry as it was, and the number of entries unchanged
C2_RepeatedAddIncrements ==
    ret.op = "add_item" /\ WellFormedAt(pre.session, RetKey)
      /\ IsNum(DictGet(pre.session.cart, RetKey).quantity)
    => LET old == DictGet(pre.session.cart, RetKey) IN
       /\ ~ret.raised
       /\ session.has /\ session.mapping
       /\ DictHas(session.cart, RetKey)
       /\ DictGet(session.cart, RetKey)
            = Item(old.name, old.price, Num(old.quantity.n + 1))
       /\ Len(session.cart) = Len(pre.session.cart)
       /\ DictKeys(session.cart) = DictKeys(pre.session.cart)
       /\ \A k \in DictKeys(pre.session.cart) \ {RetKey} :
              DictGet(session.cart, k) = DictGet(pre.session.cart, k)

C2_Witness ==
    /\ ret.op = "add_item" /\ WellFormedAt(pre.session, RetKey)
    /\ IsNum(DictGet(pre.session.cart, RetKey).quantity)
    /\ ret.pizza_name # DictGet(pre.session.cart, RetKey).name
    /\ ret.price # DictGet(pre.session.cart, RetKey).price
    /\ Len(pre.session.cart) >= 2
    /\ DictGet(session.cart, RetKey).quantity = Num(2)

\* C3: remove_item on a cart that is a mapping leaves a cart without the key
\* and with every other entry unchanged: one entry fewer when the key was
\* there, the same cart when it was not; nothing is raised
C3_RemoveEliminates ==
    ret.op = "remove_item" /\ ret.session_fault = "none"
      /\ pre.session.has /\ pre.session.mapping
    => /\ ~ret.raised
       /\ session.has /\ session.mapping
       /\ ~DictHas(session.cart, RetKey)
       /\ DictKeys(session.cart) = DictKeys(pre.session.cart) \ {RetKey}
       /\ \A k \in DictKeys(session.cart) :
              DictGet(session.cart, k) = DictGet(pre.session.cart, k)
       /\ Len(session.cart)
            = Len(pre.session.cart)
              - (IF DictHas(pre.session.cart, RetKey) THEN 1 ELSE 0)
       /\ (~DictHas(pre.session.cart, RetKey) => session = pre.session)

C3_Witness ==
    /\ ret.op = "remove_item" /\ ret.session_fault = "none"
    /\ pre.session.has /\ pre.session.mapping
    /\ DictHas(pre.session.cart, RetKey)
    /\ Len(pre.session.cart) >= 2
    /\ Len(session.cart) = Len(pre.session.cart) - 1

\* C4: get_cart_total() is the sum of price * quantity over the valid entries
\* of the stored cart, 0 for an empty cart; a malformed entry adds 0 and does
\* not change what the valid entries add
C4_TotalIsSumOfValid ==
    ret.op = "get_cart_total"
    => ret.total = (IF pre.session.has /\ pre.session.mapping
                    THEN SumOfWellTyped(pre.session.cart) ELSE 0)

\* the line item create_order stores for a cart entry
LineItemOf(e) ==
    [pizza_id |-> IntOfStr(e.k).n, pizza_name |-> e.v.name,
     price |-> e.v.price, quantity |-> e.v.quantity]

NumericKeys(cart) == \A i \in DOMAIN cart : IntOfStr(cart[i].k).ok

\* C5: with numeric cart keys and no store fault, create_order returns an id
\* under which get_order_by_id returns the customer name, phone, address and
\* total that were passed and one line item per cart entry, with the entry's
\* item id, name, price and quantity
C5_OrderRoundTrip ==
    ret.op = "create_order" /\ ret.fault = NoFault /\ NumericKeys(ret.args.cart_items)
    => LET o == get_order_by_id(db, ret.order_id, FALSE) IN
       /\ ~ret.raised
       /\ o.found
       /\ o.customer_name = ret.args.customer_name
       /\ o.phone = ret.args.phone
       /\ o.address = ret.args.address
       /\ o.total_price = ret.args.total
       /\ Len(o.items) = Len(ret.args.cart_items)
       /\ \A i \in DOMAIN o.items : o.items[i] = LineItemOf(ret.args.cart_items[i])

C5_Witness ==
    /\ ret.op = "create_order" /\ ~ret.raised
    /\ Len(ret.args.cart_items) = 2
    /\ Len(db.orders) = 2
    /\ Len(get_order_by_id(db, ret.order_id, FALSE).items) = 2

\* C6: the ids successful create_order calls return are positive and each is
\* larger than every id returned before it, also with failed calls in between
C6_OrderIdsIncrease ==
    \A j \in DOMAIN created :
        created[j] # 0
        => /\ created[j] >= 1
           /\ \A i \in 1..(j - 1) : created[i] < created[j]

C6_Witness ==
    \E i, j, k \in DOMAIN created :
        i < j /\ j < k /\ created[i] # 0 /\ created[j] = 0 /\ created[k] # 0

\* C7: a create_order call that meets a fault (connection, order insert, a
\* line-item insert, a non-numeric cart key, commit) raises, returns no id and
\* leaves the orders and order_items tables as they were before the call
C7_CreateOrderAllOrNothing ==
    ret.op = "create_order"
    => /\ (ret.fault # NoFault \/ ~NumericKeys(ret.args.cart_items)) => ret.raised
       /\ ret.raised
          => /\ ret.order_id = 0
             /\ db.orders = pre.db.orders
             /\ db.order_items = pre.db.order_items

C7_Witness ==
    /\ ret.op = "create_order" /\ ret.raised
    /\ ret.fault = FaultAtItem(2)
    /\ NumericKeys(ret.args.cart_items)
    /\ Len(pre.db.orders) = 1

\* a form field is non-empty after trimming whitespace
NonBlank(field) ==
    field.present /\ \E i \in DOMAIN field.text : field.text[i] \notin Whitespace

FieldsFilled(form) ==
    NonBlank(form.name) /\ NonBlank(form.phone) /\ NonBlank(form.address)

CheckoutSucceeded(r) ==
    r.op = "checkout_post" /\ r.status = 302 /\ r.location = "confirmation"

\* C8: when a checkout POST succeeds an order is persisted under the id it
\* redirects to and the session cart is the empty mapping; the cart is still
\* empty after the confirmation page is viewed next
C8_CartClearedAfterOrder ==
    [][ /\ CheckoutSucceeded(ret')
           => /\ session' = CartOf(EmptyDict)
              /\ get_order_by_id(db', ret'.order_id, FALSE).found
              /\ ~get_order_by_id(db, ret'.order_id, FALSE).found
        /\ CheckoutSucceeded(ret) /\ ret'.op = "confirmation"
           => session' = CartOf(EmptyDict) ]_vars

C8_Witness ==
    /\ ret.op = "confirmation" /\ ret.status = 200
    /\ ret.order_id \in {created[i] : i \in DOMAIN created}
    /\ session = CartOf(EmptyDict)
    /\ Len(get_order_by_id(db, ret.order_id, FALSE).items) >= 2

\* the checkout POST reached create_order and create_order failed
CreateOrderFailed ==
    /\ ret.op = "checkout_post"
    /\ FieldsFilled(ret.form)
    /\ ValidEntries(pre.session) # <<>>
    /\ (ret.fault # NoFault \/ ~NumericKeys(ValidEntries(pre.session)))

\* C9 as stated: when create_order fails during a checkout POST the answer is
\* 500, no order is created, there is no redirect to a confirmation page and
\* the session cart is what it was before the request
C9_CartSameOnFailure ==
    CreateOrderFailed
    => /\ ret.status = 500
       /\ ret.location # "confirmation"
       /\ db = pre.db
       /\ session = pre.session

\* C9 as amended: .. and the session cart holds the valid entries it had
\* before the request, unchanged; entries that are not valid are dropped
C9_ValidEntriesKeptOnFailure ==
    CreateOrderFailed
    => /\ ret.status = 500
       /\ ret.location # "confirmation"
       /\ ret.order_id = 0
       /\ db = pre.db
       /\ session = CartOf(ValidEntries(pre.session))

C9_Witness ==
    /\ CreateOrderFailed
    /\ ret.fault = FaultAt("commit")
    /\ Len(ValidEntries(pre.session)) >= 1
    /\ Len(pre.session.cart) > Len(ValidEntries(pre.session))
    /\ ret.status = 500

\* C10 as stated: with a valid entry in the cart and no store fault, a
\* checkout POST creates an order and redirects to its confirmation page if
\* and only if name, phone and address are non-empty after trimming;
\* otherwise it answers 400, creates no order and leaves the cart unchanged
C10_CheckoutIffFieldsFilled ==
    ret.op = "checkout_post" /\ ret.fault = NoFault /\ ValidEntries(pre.session) # <<>>
    => IF FieldsFilled(ret.form)
       THEN /\ CheckoutSucceeded(ret)
            /\ Len(db.orders) = Len(pre.db.orders) + 1
            /\ get_order_by_id(db, ret.order_id, FALSE).found
       ELSE /\ ret.status = 400
            /\ db = pre.db
            /\ session = pre.session

\* C10 as amended: with a valid entry in the cart, every valid entry under a
\* key that is an integer, and no store fault, .. ; otherwise it answers 400,
\* creates no order and leaves the valid entries of the cart unchanged
C10_CheckoutIffFieldsFilledNumericKeys ==
    ret.op = "checkout_post" /\ ret.fault = NoFault /\ ValidEntries(pre.session) # <<>>
      /\ NumericKeys(ValidEntries(pre.session))
    => IF FieldsFilled(ret.form)
       THEN /\ CheckoutSucceeded(ret)
            /\ Len(db.orders) = Len(pre.db.orders) + 1
            /\ get_order_by_id(db, ret.order_id, FALSE).found
       ELSE /\ ret.status = 400
            /\ db = pre.db
            /\ session = CartOf(ValidEntries(pre.session))

C10_Witness ==
    /\ ret.op = "checkout_post" /\ ret.fault = NoFault
    /\ ValidEntries(pre.session) # <<>>
    /\ NumericKeys(ValidEntries(pre.session))
    /\ ~NonBlank(ret.form.name) /\ ret.form.name.text # <<>>
    /\ ret.status = 400

\* a checkout request that gets past the form validation
CheckoutRequest ==
    ret.op = "checkout_get" \/ (ret.op = "checkout_post" /\ FieldsFilled(ret.form))

\* C11: a checkout request (GET, or POST with valid form fields) on a session
\* whose cart has no valid entry (no cart, an empty mapping, a value that is
\* no mapping, only corrupt entries) redirects to the cart page and creates
\* no order
C11_EmptyCartCheckoutRedirects ==
    CheckoutRequest /\ ValidEntries(pre.session) = <<>>
    => /\ ret.status = 302
       /\ ret.location = "cart"
       /\ ret.order_id = 0
       /\ db = pre.db

C11_Witness ==
    /\ ret.op = "checkout_post" /\ FieldsFilled(ret.form)
    /\ pre.session.has /\ pre.session.mapping /\ Len(pre.session.cart) >= 1
    /\ ValidEntries(pre.session) = <<>>
    /\ ret.status = 302 /\ ret.location = "cart"

\* C12: get_cart() returns exactly the entries of the stored cart that are
\* mappings with name, price and quantity; when an entry was filtered out the
\* stored cart afterwards is the returned mapping; when the stored cart is no
\* mapping, get_cart() returns the empty mapping and the stored cart becomes
\* the empty mapping; get_cart() does not raise
C12_GetCartFilters ==
    ret.op = "get_cart"
    => /\ ~ret.raised
       /\ ret.cart = ValidEntries(pre.session)
       /\ ( pre.session.has /\ pre.session.mapping
              /\ Len(ret.cart) # Len(pre.session.cart)
            => session = CartOf(ret.cart) )
       /\ ( pre.session.has /\ ~pre.session.mapping
            => ret.cart = EmptyDict /\ session = CartOf(EmptyDict) )

C12_Witness ==
    /\ ret.op = "get_cart"
    /\ pre.session.has /\ pre.session.mapping
    /\ Len(ret.cart) >= 1
    /\ Len(pre.session.cart) > Len(ret.cart)
    /\ session = CartOf(ret.cart)

\* C13: every entry of the cart get_cart() returns has name, price and
\* quantity, a numeric price and a numeric quantity >= 1; an entry that is
\* not so is not returned
C13_ReturnedEntriesWellTyped ==
    ret.op = "get_cart" => \A i \in DOMAIN ret.cart : WellTyped(ret.cart[i].v)

\* the store holds a catalog item, an order, under the id
HasPizza(d, id) == \E i \in DOMAIN d.pizzas : d.pizzas[i].id = id
HasOrder(d, id) == \E i \in DOMAIN d.orders : d.orders[i].id = id

\* C14 as stated: what get_pizza_by_id and get_order_by_id return when the
\* store faults is not the absent result of a missing id, and the add-to-cart
\* and confirmation handlers do not answer a store fault as they answer a
\* missing id
C14_NotFoundDistinctFromFault ==
    /\ ret.op = "add_to_cart" /\ ret.store_fault
       => ret.pizza # NonePizza /\ ret.status # 404
    /\ ret.op = "confirmation" /\ ret.store_fault
       => ret.order # NoneOrder /\ ret.status # 404

\* C14 as amended: for a missing id the lookups return the absent result, and
\* they return the same absent result when the store faults; the add-to-cart
\* and confirmation handlers answer 404 in both cases, and a found id is
\* answered 200 with the row of that id
C14_NotFoundSameAsFault ==
    /\ ret.op = "add_to_cart"
       => IF ret.store_fault \/ ~HasPizza(pre.db, ret.pizza_id)
          THEN ret.pizza = NonePizza /\ ret.status = 404
          ELSE ret.pizza.found /\ ret.pizza.id = ret.pizza_id /\ ret.status # 404
    /\ ret.op = "confirmation"
       => IF ret.store_fault \/ ~HasOrder(pre.db, ret.order_id)
          THEN ret.order = NoneOrder /\ ret.status = 404
          ELSE ret.order.found /\ ret.order.id = ret.order_id /\ ret.status = 200

C14_Witness ==
    /\ ret.op = "confirmation" /\ ret.store_fault
    /\ HasOrder(db, ret.order_id)
    /\ ret.order = NoneOrder /\ ret.status = 404

\* C15: on a store fault every read returns its empty or absent value, does
\* not raise and leaves the store as it was: get_all_pizzas and
\* get_all_orders return the empty list, get_pizza_by_id and get_order_by_id
\* return None, get_order_count returns 0
C15_ReadsDegradeOnFault ==
    ret.store_fault
    => /\ ~ret.raised
       /\ db = pre.db
       /\ ret.op = "get_all_pizzas" => ret.rows = <<>>
       /\ ret.op = "get_pizza_by_id" => ret.pizza = NonePizza
       /\ ret.op = "get_order_by_id" => ret.order = NoneOrder
       /\ ret.op = "get_all_orders" => ret.rows = <<>>
       /\ ret.op = "get_order_count" => ret.count = 0

C15_Witness ==
    /\ ret.op = "get_order_count" /\ ret.store_fault
    /\ Len(db.orders) >= 1
    /\ ret.count = 0

\* C17: a persisted order is immutable: no later create_order call, restart
\* of the application or change of a catalog row changes what
\* get_order_by_id returns for its id, and no step deletes the order
C17_PersistedOrderImmutable ==
    [][ \A id \in 1..(MaxOrders + 1) :
          HasOrder(db, id)
          => get_order_by_id(db', id, FALSE) = get_order_by_id(db, id, FALSE) ]_vars

C17_Witness ==
    /\ ret.op = "init_db"
    /\ HasOrder(db, 1) /\ HasOrder(db, 2)
    /\ db.pizzas[1].name = DriftedPizza.name
    /\ \E i \in DOMAIN get_order_by_id(db, 1, FALSE).items :
         LET it == get_order_by_id(db, 1, FALSE).items[i] IN
         /\ it.pizza_id = 1
         /\ it.pizza_name = "Margherita"
         /\ it.price = Num(299)

\* C20: get_all_orders returns the orders newest first: of two orders the one
\* created later (the one with the greater id) is never after the one created
\* earlier, also when both were created in the same tick of the store's clock
C20_AllOrdersNewestFirst ==
    ret.op = "get_all_orders" /\ ~ret.store_fault
    => \A i, j \in DOMAIN ret.rows : i < j => ret.rows[i].id > ret.rows[j].id

\* the ids the successful create_order calls returned
CreatedIds == {created[i] : i \in DOMAIN created} \ {0}

\* C16: with no store fault get_order_by_id(id) returns a record if and only
\* if a successful create_order returned that id; for any other id it returns
\* None without raising and the confirmation handler answers 404
C16_FoundIffCreated ==
    ret.op = "confirmation" /\ ~ret.store_fault
    => /\ ~ret.raised
       /\ ret.order.found <=> ret.order_id \in CreatedIds
       /\ ret.order.found => ret.order.id = ret.order_id /\ ret.status = 200
       /\ ~ret.order.found => ret.order = NoneOrder /\ ret.status = 404

C16_Witness ==
    /\ ret.op = "confirmation" /\ ~ret.store_fault
    /\ CreatedIds # {}
    /\ ret.order_id \notin CreatedIds
    /\ ret.status = 404

\* C18: an add-to-cart request for an id the catalog lookup does not find is
\* answered with an error and leaves the session cart as it was: no entry is
\* created for the id and no entry changes
C18_UnknownItemLeavesCart ==
    ret.op = "add_to_cart" /\ ~ret.pizza.found
    => /\ ret.status = 404
       /\ session = pre.session

C18_Witness ==
    /\ ret.op = "add_to_cart" /\ ~ret.store_fault
    /\ ~HasPizza(db, ret.pizza_id)
    /\ ValidEntries(pre.session) # <<>>
    /\ ret.status = 404

\* the op is a page view: the menu page, the cart page, the checkout page
PageView == ret.op \in {"index", "cart", "checkout_get"}

\* the session holds a cart and every entry of it is valid
OnlyValidEntries(s) == s.has /\ s.mapping /\ ValidEntries(s) = s.cart

\* C19: a page view (menu page, cart page, checkout page) on a session cart
\* made only of valid entries leaves the cart as it was: the same keys, and
\* under every key the same name, price and quantity
C19_PageViewsKeepCart ==
    PageView /\ OnlyValidEntries(pre.session) => session = pre.session

C19_Witness ==
    /\ ret.op = "cart"
    /\ OnlyValidEntries(pre.session)
    /\ Len(pre.session.cart) >= 2
    /\ session = pre.session

\* rows offset+1 .. offset+limit of a list
Slice(rows, limit, offset) ==
    [i \in 1..(IF Len(rows) - offset < 0 THEN 0
               ELSE IF Len(rows) - offset < limit THEN Len(rows) - offset
               ELSE limit) |-> rows[offset + i]]

\* C21: for every limit >= 0 and offset >= 0 get_all_orders returns the slice
\* [offset, offset + limit) of the full descending list, so never more than
\* limit orders; without a limit it returns all orders
C21_LimitOffsetSlice ==
    ret.op = "get_all_orders" /\ ~ret.store_fault
    => IF ret.limit.given
       THEN /\ Len(ret.rows) <= ret.limit.n
            /\ \E full \in OrdersByDateDesc(db) :
                 ret.rows = Slice(full, ret.limit.n, ret.offset)
       ELSE ret.rows \in OrdersByDateDesc(db)

\* C22: add_item raises only on a fault of its environment, never because of
\* what the stored cart holds; the calls here meet no fault of the
\* environment, so none of them raises; when add_item does raise, the stored
\* cart is the empty mapping
C22_AddItemRaisesOnlyOnEnvFault ==
    ret.op = "add_item"
    => /\ ~ret.raised
       /\ ret.raised => session = CartOf(EmptyDict)

\* the entries of the stored cart, none when it is no mapping
Entries(s) == IF s.has /\ s.mapping THEN s.cart ELSE <<>>

\* C23 as stated: when remove_item hits a fault no fault reaches the caller
\* and the stored cart is not reset: its entries are the ones it held before
\* the call
C23_RemoveFaultKeepsEntries ==
    ret.op = "remove_item" /\ ret.session_fault # "none"
    => /\ ~ret.raised
       /\ Entries(session) = Entries(pre.session)

\* C23 as amended: .. and the stored cart is not reset: its entries under the
\* other keys are the ones it held before the call, and the entry under the
\* removed key is the one it held or, when the fault hit after the deletion,
\* gone
C23_RemoveFaultKeepsOtherEntries ==
    ret.op = "remove_item" /\ ret.session_fault # "none"
    => /\ ~ret.raised
       /\ DictDel(Entries(session), RetKey) = DictDel(Entries(pre.session), RetKey)
       /\ \/ Entries(session) = Entries(pre.session)
          \/ /\ ret.session_fault = "write"
             /\ Entries(session) = DictDel(Entries(pre.session), RetKey)

C23_Witness ==
    /\ ret.op = "remove_item" /\ ret.session_fault = "write"
    /\ Len(Entries(pre.session)) >= 2
    /\ DictHas(Entries(pre.session), RetKey)
    /\ Len(Entries(session)) = Len(Entries(pre.session)) - 1

\* the calls of CartManager
CartOps ==
    {"add_item", "get_cart", "get_cart_total", "is_empty", "remove_item", "clear_cart"}

\* what C24 says of add_item and remove_item on a stored cart that is no
\* mapping
OnNonMapping ==
    ~(pre.session.has /\ pre.session.mapping)
    => /\ ret.op = "add_item"
          => session = CartOf(<<[k |-> RetKey,
                                 v |-> Item(ret.pizza_name, ret.price, Num(1))]>>)
       /\ ret.op = "remove_item" => session = CartOf(EmptyDict)

SeededCatalog ==
    [i \in DOMAIN sample_pizzas |-> [id |-> i,
                                     name |-> sample_pizzas[i][1],
                                     price |-> sample_pizzas[i][2]]]

\* C25: init_db is idempotent: from an empty store, after any number n >= 1
\* of init_db calls (and while no catalog row was changed from outside) the
\* catalog holds the six sample items once each under the same ids, and an
\* init_db call on a store whose catalog is not empty changes no catalog
\* item, no order and no line item
C25_InitDbIdempotent ==
    /\ db.pizzas[1].name # DriftedPizza.name => db.pizzas = SeededCatalog
    /\ ret.op = "init_db" /\ pre.db.pizzas # <<>> => db = pre.db

C25_Witness ==
    /\ ret.op = "init_db"
    /\ db.pizzas = SeededCatalog
    /\ Len(db.orders) >= 1 /\ Len(db.order_items) >= 2
    /\ db = pre.db

\* the operations on the store
StoreOps ==
    {"create_order", "get_order_by_id", "get_all_orders", "get_order_count",
     "get_all_pizzas", "get_pizza_by_id", "init_db"}

\* C26: every operation on the store closes the connection it opened on
\* every exit path, normal return, absent result and failure alike: no
\* operation leaves a connection open
C26_ConnectionsClosed ==
    ret.op \in StoreOps => ret.open = 0

\* the catalog row of the id
PizzaRow(d, id) == d.pizzas[CHOOSE i \in DOMAIN d.pizzas : d.pizzas[i].id = id]

\* every entry of the stored cart lies under the decimal string of a catalog
\* id and holds the catalog's name and price and an integer quantity >= 1
CartOfCatalogItems ==
    /\ session.has => session.mapping
    /\ \A i \in DOMAIN Entries(session) :
         LET e == Entries(session)[i] IN
         \E id \in RequestIds :
            /\ HasPizza(db, id)
            /\ e.k = StrOfInt(id)
            /\ e.v.dict
            /\ e.v.name = PizzaRow(db, id).name
            /\ e.v.price = Num(PizzaRow(db, id).price)
            /\ IsNum(e.v.quantity) /\ e.v.quantity.n >= 1

\* a successful add makes the quantity of its item 1 when the item was absent
\* and one more when it was there, and leaves the other entries; every other
\* request changes no entry: it leaves the entries or takes some away
QuantityCountsAdds ==
    IF ret'.op = "add_to_cart" /\ ret'.status = 200
    THEN LET k == StrOfInt(ret'.pizza_id) IN
         /\ DictHas(Entries(session'), k)
         /\ DictGet(Entries(session'), k).quantity
              = IF DictHas(Entries(session), k)
                THEN Num(DictGet(Entries(session), k).quantity.n + 1)
                ELSE Num(1)
         /\ DictDel(Entries(session'), k) = DictDel(Entries(session), k)
    ELSE \A k \in DictKeys(Entries(session')) :
            /\ DictHas(Entries(session), k)
            /\ DictGet(Entries(session'), k) = DictGet(Entries(session), k)

\* C27: from a session with no cart, after any add-to-cart, remove-from-cart,
\* page-view and checkout requests every entry of the stored cart is
\* well-formed: its key is the decimal string of a catalog id, its name and
\* price are the catalog's, and its quantity is an integer >= 1, the number
\* of successful adds of the item since it was last absent from the cart
C27_CartEntriesCountAdds ==
    /\ []CartOfCatalogItems
    /\ [][QuantityCountsAdds]_vars

C27_Witness ==
    /\ ret.op = "add_to_cart" /\ ret.status = 200
    /\ Len(Entries(pre.session)) = 1
    /\ DictHas(Entries(session), RetKey)
    /\ DictGet(Entries(session), RetKey) = Item("Margherita", Num(299), Num(2))

\* the sum of price * quantity over the line items of an order
RECURSIVE SumOfLineItems(_)
SumOfLineItems(items) ==
    IF items = <<>> THEN 0
    ELSE Head(items).price.n * Head(items).quantity.n + SumOfLineItems(Tail(items))

\* C28: an order the checkout handler persists, from a cart built through the
\* add-to-cart and remove-from-cart handlers, has at least one line item, its
\* line items are the valid entries of the session cart at the POST, and its
\* total price is the sum of price * quantity over its line items
C28_OrderMatchesCart ==
    CheckoutSucceeded(ret)
    => LET o == get_order_by_id(db, ret.order_id, FALSE)
           entries == ValidEntries(pre.session)
       IN  /\ o.found
           /\ Len(o.items) >= 1
           /\ Len(o.items) = Len(entries)
           /\ \A i \in DOMAIN o.items : o.items[i] = LineItemOf(entries[i])
           /\ o.total_price = SumOfLineItems(o.items)

C28_Witness ==
    /\ CheckoutSucceeded(ret)
    /\ \E i \in DOMAIN get_order_by_id(db, ret.order_id, FALSE).items :
         get_order_by_id(db, ret.order_id, FALSE).items[i].quantity = Num(2)
    /\ get_order_by_id(db, ret.order_id, FALSE).total_price = 598

\* C29: a cart is turned into at most one order: an order is persisted only
\* by a checkout POST that found a valid entry in the cart, one order a POST,
\* and the POST leaves the cart empty; an empty cart gets an entry only by a
\* successful add-to-cart; so a checkout POST right after a successful one
\* creates no order, and there are never more orders than checkout POSTs
\* that found a non-empty cart
C29_OneOrderPerCart ==
    [][ /\ Len(db'.orders) # Len(db.orders)
           => /\ ret'.op = "checkout_post"
              /\ ValidEntries(session) # <<>>
              /\ Len(db'.orders) = Len(db.orders) + 1
              /\ ValidEntries(session') = <<>>
        /\ ValidEntries(session) = <<>> /\ ValidEntries(session') # <<>>
           => ret'.op = "add_to_cart" /\ ret'.status = 200
        /\ CheckoutSucceeded(ret) /\ ret'.op = "checkout_post"
           => db' = db /\ ret'.location # "confirmation" ]_vars

C29_Witness ==
    /\ ret.op = "checkout_post" /\ FieldsFilled(ret.form)
    /\ Len(pre.db.orders) >= 1
    /\ ValidEntries(pre.session) = <<>>
    /\ ret.status = 302 /\ ret.location = "cart"
    /\ db = pre.db

\* the call that inserted the committed row
InsertedBy(row, id) ==
    { txn.tags[i].call : i \in { j \in DOMAIN txn.tags :
                                   txn.tags[j].row = row /\ txn.tags[j].id = id } }

\* C30: in every state of the store, also after failed create_order calls
\* and when two create_order calls on separate connections interleave their
\* statements, every line item's order_id is the id of a persisted order and
\* the line item was inserted by the call that inserted that order
C30_NoOrphanLineItems ==
    \A i \in DOMAIN db.order_items :
        LET r == db.order_items[i] IN
        /\ HasOrder(db, r.order_id)
        /\ InsertedBy("item", r.id) # {}
        /\ InsertedBy("item", r.id) = InsertedBy("order", r.order_id)

C30_Witness ==
    /\ Len(db.orders) >= 1 /\ Len(db.order_items) >= 2
    /\ txn.lock = 1 /\ txn.pc[1] = "items" /\ txn.next[1] = 2
    /\ txn.pc[2] = "connected"
    /\ txn.calls = MaxCalls

====
